---- MODULE Spec2Model ----
(***************************************************************************)
(* Account UTXO indexer of blockchain/account/indexer.go: the wallet       *)
(* checkpoint (WalletInfo), the rollback / forward-application loop of     *)
(* Manager.WalletUpdate, the staging of UTXO writes into one db.Batch and  *)
(* the commit of checkpoint and UTXO writes by commitWalletInfo.           *)
(*                                                                         *)
(* The chain (protocol.Chain) is the environment: blocks of a fixed block  *)
(* tree arrive in any order that respects parent links, and the main chain *)
(* is extended or reorganised when they do.                                *)
(***************************************************************************)
EXTENDS Integers, Sequences, FiniteSets, TLC

(***************************************************************************)
(* Bounds of the model.                                                    *)
(***************************************************************************)
\* blocks above this height never arrive
MaxHeight == 4
\* number of times the process may be restarted over the same store
MaxRestarts == 1
\* number of failing block fetches
MaxFetchFailures == 2
MaxMarshalFailures == 1

(***************************************************************************)
(* Keys of the wallet database.                                            *)
(***************************************************************************)
UTXOPreFix == "ACU:"

walletkey == <<"walletInfo">>

accountUTXOKey(name) == <<UTXOPreFix, name>>

(***************************************************************************)
(* The zero hash and the zero value of WalletInfo.                         *)
(***************************************************************************)
ZeroHash == "0"

ZeroWalletInfo == [Height |-> 0, Hash |-> ZeroHash]

(***************************************************************************)
(* The account registry read by loadAccountInfo: control programs stored   *)
(* under accountCPKey(sha3(program)) and accounts stored under             *)
(* accountKey(id).  "p1" belongs to the existing account "acc1", "p2" is   *)
(* registered to "acc2", which is not in the account registry, and "p3"    *)
(* has no control program record.  The registry does not change.           *)
(***************************************************************************)
ControlProgramDB ==
    [p \in {"p1", "p2"} |->
        IF p = "p1" THEN [AccountID |-> "acc1", KeyIndex |-> 1, Change |-> FALSE]
                    ELSE [AccountID |-> "acc2", KeyIndex |-> 2, Change |-> TRUE]]

AccountDB == {"acc1"}

(***************************************************************************)
(* Transactions.  An entry of tx.Entries is either a bc.Output (with its   *)
(* value source, control program and reference data) or a bc.Retirement.   *)
(* A spend input carries the id of the output it spends; tx.Entries holds  *)
(* that previous output as a bc.Output entry.  An issuance input has no    *)
(* spend entry.  A transaction output has the legacy fields (AssetAmount,  *)
(* ControlProgram) and its result entry.                                   *)
(***************************************************************************)
OutputEntry(asset, amount, prog, ref, pos, data) ==
    [kind |-> "output",
     Source |-> [Ref |-> ref, Value |-> [AssetId |-> asset, Amount |-> amount], Position |-> pos],
     ControlProgram |-> prog, Data |-> data]

RetirementEntry(asset, amount, ref, pos, data) ==
    [kind |-> "retirement",
     Source |-> [Ref |-> ref, Value |-> [AssetId |-> asset, Amount |-> amount], Position |-> pos],
     ControlProgram |-> "", Data |-> data]

\* a transaction output creating a spendable output with id `id`
TxOut(id, asset, amount, prog, ref, pos) ==
    [ResultId |-> id,
     AssetAmount |-> [AssetId |-> asset, Amount |-> amount],
     ControlProgram |-> prog,
     Entry |-> OutputEntry(asset, amount, prog, ref, pos, "d")]

\* a transaction output that retires value
TxRetire(id, asset, amount, prog, ref, pos) ==
    [ResultId |-> id,
     AssetAmount |-> [AssetId |-> asset, Amount |-> amount],
     ControlProgram |-> prog,
     Entry |-> RetirementEntry(asset, amount, ref, pos, "d")]

\* a spend input: the spent output id and the previous output as held in tx.Entries
SpendIn(o) == [kind |-> "spend", SpentOutputId |-> o.ResultId, Prevout |-> o.Entry]

IssuanceIn == [kind |-> "issuance"]

(***************************************************************************)
(* The outputs of the block tree.                                          *)
(***************************************************************************)
O1  == TxOut("O1", "btm", 100, "p1", "mA1", 0)
O2  == TxOut("O2", "gold", 50, "p1", "mA1", 1)
O3  == TxOut("O3", "btm", 7, "p3", "mA1", 2)
O4  == TxOut("O4", "btm", 60, "p1", "mA2", 0)
O5  == TxOut("O5", "btm", 40, "p2", "mA2", 1)
O6  == TxOut("O6", "gold", 50, "p1", "mA3", 0)
O7  == TxOut("O7", "btm", 90, "p1", "mB2", 0)
R1  == TxRetire("R1", "btm", 10, "p1", "mB2", 1)
O8  == TxOut("O8", "gold", 50, "p1", "mB3", 0)
O9  == TxOut("O9", "btm", 90, "p1", "mB4a", 0)
O10 == TxOut("O10", "btm", 90, "p1", "mB4b", 0)
O11 == TxOut("O11", "btm", 60, "p1", "mA4", 0)
O12 == TxOut("O12", "gold", 50, "p1", "mA5", 0)
O13 == TxOut("O13", "gold", 50, "p1", "mB5", 0)

(***************************************************************************)
(* The block tree: genesis A1 at height 1, fork A (A2 .. A5) and fork B    *)
(* (B2 .. B5) on top of it.  B4 holds a transaction that spends an output  *)
(* created by an earlier transaction of B4.                                *)
(***************************************************************************)
Tx(id, ins, outs) == [ID |-> id, Inputs |-> ins, Outputs |-> outs]

BlockA1 == [Hash |-> "A1", Height |-> 1, PreviousBlockHash |-> ZeroHash,
            Transactions |-> << Tx("tA1", <<IssuanceIn>>, <<O1, O2, O3>>) >>]
BlockA2 == [Hash |-> "A2", Height |-> 2, PreviousBlockHash |-> "A1",
            Transactions |-> << Tx("tA2", <<SpendIn(O1)>>, <<O4, O5>>) >>]
BlockA3 == [Hash |-> "A3", Height |-> 3, PreviousBlockHash |-> "A2",
            Transactions |-> << Tx("tA3", <<SpendIn(O2), SpendIn(O5)>>, <<O6>>) >>]
BlockA4 == [Hash |-> "A4", Height |-> 4, PreviousBlockHash |-> "A3",
            Transactions |-> << Tx("tA4", <<SpendIn(O4)>>, <<O11>>) >>]
BlockB2 == [Hash |-> "B2", Height |-> 2, PreviousBlockHash |-> "A1",
            Transactions |-> << Tx("tB2", <<SpendIn(O1)>>, <<O7, R1>>) >>]
BlockB3 == [Hash |-> "B3", Height |-> 3, PreviousBlockHash |-> "B2",
            Transactions |-> << Tx("tB3", <<SpendIn(O2), IssuanceIn, SpendIn(O3)>>, <<O8>>) >>]
BlockB4 == [Hash |-> "B4", Height |-> 4, PreviousBlockHash |-> "B3",
            Transactions |-> << Tx("tB4a", <<SpendIn(O7)>>, <<O9>>),
                                Tx("tB4b", <<SpendIn(O9)>>, <<O10>>) >>]

BlockA5 == [Hash |-> "A5", Height |-> 5, PreviousBlockHash |-> "A4",
            Transactions |-> << Tx("tA5", <<SpendIn(O6)>>, <<O12>>) >>]
BlockB5 == [Hash |-> "B5", Height |-> 5, PreviousBlockHash |-> "B4",
            Transactions |-> << Tx("tB5", <<SpendIn(O8)>>, <<O13>>) >>]

AllBlocks == {BlockA1, BlockA2, BlockA3, BlockA4, BlockA5,
              BlockB2, BlockB3, BlockB4, BlockB5}

Blocks == {b \in AllBlocks : b.Height <= MaxHeight}

Hashes == {b.Hash : b \in AllBlocks}

BlockOf(h) == CHOOSE b \in AllBlocks : b.Hash = h

(***************************************************************************)
(* db.Batch and db.DB of the tmlibs library, which is not part of the      *)
(* repository: modelled by their contract.  A batch is the list of Set /   *)
(* Delete operations staged so far; Write applies them in order, so the    *)
(* effect of a batch on a key is that of the last operation staged for     *)
(* that key, which is what the batch records here.  A Set replaces the     *)
(* value stored under its key, a Delete of a key that is not stored does   *)
(* nothing.  A value is the record that was serialised.                    *)
(***************************************************************************)
NewBatch == [k \in {} |-> [op |-> "del", val |-> [none |-> TRUE]]]

BatchSet(batch, key, value) ==
    [k \in (DOMAIN batch) \cup {key} |->
        IF k = key THEN [op |-> "set", val |-> value] ELSE batch[k]]

BatchDelete(batch, key) ==
    [k \in (DOMAIN batch) \cup {key} |->
        IF k = key THEN [op |-> "del", val |-> [none |-> TRUE]] ELSE batch[k]]

BatchWrite(batch, db) ==
    LET dels == {k \in DOMAIN batch : batch[k].op = "del"}
        sets == {k \in DOMAIN batch : batch[k].op = "set"}
    IN  [k \in ((DOMAIN db) \ dels) \cup sets |->
            IF k \in sets THEN batch[k].val ELSE db[k]]

EmptyDB == [k \in {} |-> [none |-> TRUE]]

(***************************************************************************)
(* tx.Spend(inpID): the spend entry of an input, an error for an input     *)
(* that is not a spend.                                                    *)
(***************************************************************************)
IsSpend(inp) == inp.kind = "spend"

(***************************************************************************)
(* prevoutDBKeys: the ids of the outputs spent by the transactions, in     *)
(* order.                                                                  *)
(***************************************************************************)
RECURSIVE SpentIdsOfInputs(_)
SpentIdsOfInputs(ins) ==
    IF ins = << >> THEN << >>
    ELSE (IF IsSpend(Head(ins)) THEN << Head(ins).SpentOutputId >> ELSE << >>)
         \o SpentIdsOfInputs(Tail(ins))

RECURSIVE prevoutDBKeys(_)
prevoutDBKeys(txs) ==
    IF txs = << >> THEN << >>
    ELSE SpentIdsOfInputs(Head(txs).Inputs) \o prevoutDBKeys(Tail(txs))

(***************************************************************************)
(* The rawOutput values ReverseAccountUTXOs builds for the outputs a block *)
(* spends: fields are read from the previous output entry in tx.Entries.   *)
(***************************************************************************)
SpentRawOutput(tx, inp) ==
    [OutputID       |-> inp.SpentOutputId,
     AssetId        |-> inp.Prevout.Source.Value.AssetId,
     Amount         |-> inp.Prevout.Source.Value.Amount,
     ControlProgram |-> inp.Prevout.ControlProgram,
     txHash         |-> tx.ID,
     outputIndex    |-> 0,
     sourceID       |-> inp.Prevout.Source.Ref,
     sourcePos      |-> inp.Prevout.Source.Position,
     refData        |-> inp.Prevout.Data]

RECURSIVE SpentOutsOfInputs(_, _)
SpentOutsOfInputs(tx, ins) ==
    IF ins = << >> THEN << >>
    ELSE (IF IsSpend(Head(ins)) /\ Head(ins).Prevout.kind = "output"
             THEN << SpentRawOutput(tx, Head(ins)) >> ELSE << >>)
         \o SpentOutsOfInputs(tx, Tail(ins))

RECURSIVE reverseOuts(_)
reverseOuts(txs) ==
    IF txs = << >> THEN << >>
    ELSE SpentOutsOfInputs(Head(txs), Head(txs).Inputs) \o reverseOuts(Tail(txs))

(***************************************************************************)
(* The rawOutput values BuildAccountUTXOs builds for the outputs a block   *)
(* creates: asset, amount and program come from tx.Outputs[j], the source  *)
(* and reference data from the result entry; retirements are skipped.      *)
(***************************************************************************)
CreatedRawOutput(tx, j) ==
    LET out == tx.Outputs[j] IN
    [OutputID       |-> out.ResultId,
     AssetId        |-> out.AssetAmount.AssetId,
     Amount         |-> out.AssetAmount.Amount,
     ControlProgram |-> out.ControlProgram,
     txHash         |-> tx.ID,
     outputIndex    |-> j - 1,
     sourceID       |-> out.Entry.Source.Ref,
     sourcePos      |-> out.Entry.Source.Position,
     refData        |-> out.Entry.Data]

\* an extraction that does not look at the kind of the result entry
RECURSIVE CreatedOutsFromAll(_, _)
CreatedOutsFromAll(tx, j) ==
    IF j > Len(tx.Outputs) THEN << >>
    ELSE << CreatedRawOutput(tx, j) >> \o CreatedOutsFromAll(tx, j + 1)

RECURSIVE CreatedOutsFrom(_, _)
CreatedOutsFrom(tx, j) ==
    IF j > Len(tx.Outputs) THEN << >>
    ELSE (IF tx.Outputs[j].Entry.kind = "output"
             THEN << CreatedRawOutput(tx, j) >> ELSE << >>)
         \o CreatedOutsFrom(tx, j + 1)

RECURSIVE buildOuts(_)
buildOuts(txs) ==
    IF txs = << >> THEN << >>
    ELSE CreatedOutsFrom(Head(txs), 1) \o buildOuts(Tail(txs))

(***************************************************************************)
(* The ids of the result entries of a block that are bc.Output entries     *)
(* (the keys ReverseAccountUTXOs deletes).                                 *)
(***************************************************************************)
RECURSIVE NewOutputIdsFrom(_, _)
NewOutputIdsFrom(tx, j) ==
    IF j > Len(tx.Outputs) THEN << >>
    ELSE (IF tx.Outputs[j].Entry.kind = "output"
             THEN << tx.Outputs[j].ResultId >> ELSE << >>)
         \o NewOutputIdsFrom(tx, j + 1)

RECURSIVE newOutputIds(_)
newOutputIds(txs) ==
    IF txs = << >> THEN << >>
    ELSE NewOutputIdsFrom(Head(txs), 1) \o newOutputIds(Tail(txs))

(***************************************************************************)
(* loadAccountInfo: keeps the outputs whose control program has a control  *)
(* program record and whose account exists, and attaches the account data. *)
(* The code visits the outputs grouped by program, in map order; the       *)
(* result differs only in the order of outputs with distinct ids.          *)
(***************************************************************************)
HasControlProgram(prog) == prog \in DOMAIN ControlProgramDB

\* an annotation that does not look the account up
CanAnnotateWithoutAccount(prog) == HasControlProgram(prog)

AccountExists(prog) == ControlProgramDB[prog].AccountID \in AccountDB

CanAnnotate(prog) == HasControlProgram(prog) /\ AccountExists(prog)

AccountOutput(out) ==
    [rawOutput |-> out,
     AccountID |-> ControlProgramDB[out.ControlProgram].AccountID,
     keyIndex  |-> ControlProgramDB[out.ControlProgram].KeyIndex,
     change    |-> ControlProgramDB[out.ControlProgram].Change]

RECURSIVE loadAccountInfo(_)
loadAccountInfo(outs) ==
    IF outs = << >> THEN << >>
    ELSE (IF CanAnnotate(Head(outs).ControlProgram)
             THEN << AccountOutput(Head(outs)) >> ELSE << >>)
         \o loadAccountInfo(Tail(outs))

(***************************************************************************)
(* upsertConfirmedAccountOutputs: one UTXO record per account output,      *)
(* staged as a Set under the key of its output id.                         *)
(***************************************************************************)
UTXO(out) ==
    [OutputID     |-> out.rawOutput.OutputID,
     AssetID      |-> out.rawOutput.AssetId,
     Amount       |-> out.rawOutput.Amount,
     AccountID    |-> out.AccountID,
     ProgramIndex |-> out.keyIndex,
     Program      |-> out.rawOutput.ControlProgram,
     SourceID     |-> out.rawOutput.sourceID,
     SourcePos    |-> out.rawOutput.sourcePos,
     RefData      |-> out.rawOutput.refData,
     Change       |-> out.change]

RECURSIVE upsertConfirmedAccountOutputs(_, _)
upsertConfirmedAccountOutputs(outs, batch) ==
    IF outs = << >> THEN batch
    ELSE upsertConfirmedAccountOutputs(Tail(outs),
            BatchSet(batch, accountUTXOKey(UTXO(Head(outs)).OutputID), UTXO(Head(outs))))

RECURSIVE DeleteAll(_, _)
DeleteAll(ids, batch) ==
    IF ids = << >> THEN batch
    ELSE DeleteAll(Tail(ids), BatchDelete(batch, accountUTXOKey(Head(ids))))

(***************************************************************************)
(* ReverseAccountUTXOs: stages the records of the outputs the block spent, *)
(* then the deletes of the outputs the block created.                      *)
(***************************************************************************)
ReverseAccountUTXOs(batch, b) ==
    LET accOuts == loadAccountInfo(reverseOuts(b.Transactions))
        staged  == upsertConfirmedAccountOutputs(accOuts, batch)
    IN  DeleteAll(newOutputIds(b.Transactions), staged)

(***************************************************************************)
(* BuildAccountUTXOs: stages the deletes of the outputs the block spends,  *)
(* then the records of the outputs the block creates.                      *)
(***************************************************************************)
BuildAccountUTXOs(batch, b) ==
    LET deleted == DeleteAll(prevoutDBKeys(b.Transactions), batch)
        accOuts == loadAccountInfo(buildOuts(b.Transactions))
    IN  upsertConfirmedAccountOutputs(accOuts, deleted)

(***************************************************************************)
(* commitWalletInfo: stages the checkpoint under walletkey and writes the  *)
(* batch.  Yields the batch and the database after the write.              *)
(***************************************************************************)
StageWalletInfo(batch, w) == BatchSet(batch, walletkey, [Height |-> w.Height, Hash |-> w.Hash])

\* a commit that stages the checkpoint and never writes the batch
commitWalletInfoNoWrite(w, batch, db) ==
    [batch |-> StageWalletInfo(batch, w), db |-> db]

commitWalletInfo(w, batch, db) ==
    LET staged == StageWalletInfo(batch, w)
    IN  [batch |-> staged, db |-> BatchWrite(staged, db)]

(***************************************************************************)
(* GetWalletInfo: reads the record under walletkey.  json.Unmarshal is     *)
(* given &w, so a stored record is decoded into the wallet itself and the  *)
(* returned info keeps its zero value.  Yields the returned info and the   *)
(* wallet fields after the call.                                           *)
(***************************************************************************)
GetWalletInfo(w, db) ==
    IF walletkey \notin DOMAIN db
        THEN [info |-> ZeroWalletInfo, w |-> w]
        ELSE [info |-> ZeroWalletInfo, w |-> [Height |-> db[walletkey].Height, Hash |-> db[walletkey].Hash]]

(***************************************************************************)
(* NewWallet: the wallet whose Height and Hash are those GetWalletInfo     *)
(* returned.                                                               *)
(***************************************************************************)
NewWallet(db) ==
    LET got == GetWalletInfo(ZeroWalletInfo, db)
    IN  [Height |-> got.info.Height, Hash |-> got.info.Hash]

(***************************************************************************)
(* vmutil.ParseP2SPMultiSigProgram.  A program is held as the sequence of  *)
(* instructions vm.ParseProgram decodes it to, or as malformed; the Data   *)
(* of an instruction is its length and, for a number, the integer it       *)
(* encodes.                                                                *)
(***************************************************************************)
MaxPops == 12

\* ed25519.PublicKeySize
PublicKeySize == 32

NilError == "nil"

Instruction(len, val) == [len |-> len, val |-> val]

\* an instruction without data
Op == Instruction(0, 0)

NoProgram == [malformed |-> FALSE, pops |-> << >>]

\* vm.ParseProgram: the instructions of the program, or an error
ParseProgram(prog) ==
    IF prog.malformed THEN [pops |-> << >>, err |-> "ErrParse"]
    ELSE [pops |-> prog.pops, err |-> NilError]

\* vm.AsInt64: the integer of at most 8 bytes of data
AsInt64(data) ==
    IF data.len > 8 THEN [n |-> 0, err |-> "ErrBadValue"]
    ELSE [n |-> data.val, err |-> NilError]

checkMultiSigParams(nrequired, npubkeys) ==
    IF nrequired < 0 THEN "ErrBadValue"
    ELSE IF npubkeys < 0 THEN "ErrBadValue"
    ELSE IF nrequired > npubkeys THEN "ErrBadValue"
    ELSE IF nrequired = 0 /\ npubkeys > 0 THEN "ErrBadValue"
    ELSE NilError

\* what ParseP2SPMultiSigProgram returns; isNil says that the key slice is nil
ParseResult(isNil, pubkeys, nrequired, err) ==
    [done |-> TRUE, isNil |-> isNil, pubkeys |-> pubkeys, nrequired |-> nrequired, err |-> err]

NoResult == [done |-> FALSE, isNil |-> TRUE, pubkeys |-> << >>, nrequired |-> 0, err |-> NilError]

\* the loop over the key positions i, i + 1, .., last of pops (1-based); err
\* is the value the variable err holds when the loop runs
RECURSIVE CollectPubkeys(_, _, _, _, _, _)
CollectPubkeys(pops, i, last, pubkeys, nrequired, err) ==
    IF i > last THEN ParseResult(FALSE, pubkeys, nrequired, NilError)
    ELSE IF pops[i].len # PublicKeySize THEN ParseResult(TRUE, << >>, 0, err)
    ELSE CollectPubkeys(pops, i + 1, last, Append(pubkeys, pops[i].val), nrequired, err)

\* pops[len(pops)-6] of the code is pops[L - 5] here, pops[len(pops)-7] is
\* pops[L - 6], and the keys are pops[L - 6 - npubkeys] .. pops[L - 7]
ParseP2SPMultiSigProgram(prog) ==
    LET parsed == ParseProgram(prog)
        pops   == parsed.pops
        L      == Len(pops)
    IN  IF parsed.err # NilError THEN ParseResult(TRUE, << >>, 0, parsed.err)
        ELSE IF L < 11 THEN ParseResult(TRUE, << >>, 0, "ErrShortProgram")
        ELSE IF AsInt64(pops[L - 5]).err # NilError
            THEN ParseResult(TRUE, << >>, 0, AsInt64(pops[L - 5]).err)
        ELSE IF AsInt64(pops[L - 5]).n > L - 10 THEN ParseResult(TRUE, << >>, 0, "ErrShortProgram")
        ELSE IF AsInt64(pops[L - 6]).err # NilError
            THEN ParseResult(TRUE, << >>, 0, AsInt64(pops[L - 6]).err)
        ELSE IF checkMultiSigParams(AsInt64(pops[L - 6]).n, AsInt64(pops[L - 5]).n) # NilError
            THEN ParseResult(TRUE, << >>, 0,
                             checkMultiSigParams(AsInt64(pops[L - 6]).n, AsInt64(pops[L - 5]).n))
        ELSE CollectPubkeys(pops, L - 6 - AsInt64(pops[L - 5]).n, L - 7, << >>,
                            AsInt64(pops[L - 6]).n,
                            checkMultiSigParams(AsInt64(pops[L - 6]).n, AsInt64(pops[L - 5]).n))

(***************************************************************************)
(* The programs parsed: 10 .. MaxPops instructions; the two numbers are in *)
(* the positions the parser reads them from, the instructions before them  *)
(* are data pushes of PublicKeySize or PublicKeySize - 1 bytes, the first  *)
(* three and the last five are instructions without data.                  *)
(***************************************************************************)
Numbers == {Instruction(1, v) : v \in -1..(MaxPops - 9)} \cup {Instruction(9, 0)}

KeyPushes == {Instruction(PublicKeySize, 7), Instruction(PublicKeySize - 1, 7)}

ProgramOf(L, keys, nrequired, npubkeys) ==
    [i \in 1..L |->
        IF i = L - 5 THEN npubkeys
        ELSE IF i = L - 6 THEN nrequired
        ELSE IF i >= 4 /\ i < L - 6 THEN keys[i - 3]
        ELSE Op]

Programs ==
    {[malformed |-> m, pops |-> ProgramOf(L, keys, nrequired, npubkeys)] :
        m \in BOOLEAN, L \in 10..MaxPops, keys \in [1..(MaxPops - 10) -> KeyPushes],
        nrequired \in Numbers, npubkeys \in Numbers}

(***************************************************************************)
(* State.                                                                  *)
(*   known      hashes of the blocks the chain has stored                  *)
(*   mainChain  hash of the main-chain block at each height 1..best height *)
(*   pc         position of WalletUpdate: "idle" (not running), "loop"     *)
(*              (head of the rollback loop), "fetch" (before               *)
(*              GetBlockByHeight), "wait" (on BlockWaiter), "link" (before *)
(*              the parent-hash test)                                      *)
(*   wallet     m.wallet.Height and m.wallet.Hash                          *)
(*   batch      storeBatch of the running WalletUpdate                     *)
(*   block      hash of the block held in the variable block, or NoBlock   *)
(*   db         the wallet database: walletkey and the account UTXO keys   *)
(*   restarts, failures, marshalErrs   counters of the bounded events      *)
(*   program    the program given to ParseP2SPMultiSigProgram              *)
(*   result     what ParseP2SPMultiSigProgram returned for it              *)
(***************************************************************************)
VARIABLES known, mainChain, pc, wallet, batch, block, db, restarts, failures,
          marshalErrs, program, result

vars == <<known, mainChain, pc, wallet, batch, block, db, restarts, failures,
          marshalErrs, program, result>>

NoBlock == "none"

(***************************************************************************)
(* protocol.Chain as the indexer uses it.                                  *)
(***************************************************************************)
BestHeight == Len(mainChain)

\* the hashes of the chain from genesis to block b
RECURSIVE ChainTo(_)
ChainTo(b) ==
    IF b.Height = 1 THEN << b.Hash >>
    ELSE ChainTo(BlockOf(b.PreviousBlockHash)) \o << b.Hash >>

\* height 0 (the zero checkpoint, below genesis) is on every main chain
InMainChain(height, hash) ==
    IF height = 0 THEN TRUE
    ELSE height <= BestHeight /\ mainChain[height] = hash

GetBlockByHeightExists(height) == height >= 1 /\ height <= BestHeight

CanArrive(b) ==
    /\ b.Hash \notin known
    /\ b.Height = 1 \/ b.PreviousBlockHash \in known

Tip == IF BestHeight = 0 THEN ZeroHash ELSE mainChain[BestHeight]

\* a block that extends the best block
ExtendMainChain ==
    \E b \in Blocks :
        /\ CanArrive(b)
        /\ b.PreviousBlockHash = Tip
        /\ known' = known \cup {b.Hash}
        /\ mainChain' = Append(mainChain, b.Hash)
        /\ UNCHANGED <<pc, wallet, batch, block, db, restarts, failures, marshalErrs, program, result>>

\* a block on a side branch that is higher than the best block
Reorganize ==
    \E b \in Blocks :
        /\ CanArrive(b)
        /\ b.PreviousBlockHash # Tip
        /\ b.Height > BestHeight
        /\ known' = known \cup {b.Hash}
        /\ mainChain' = ChainTo(b)
        /\ UNCHANGED <<pc, wallet, batch, block, db, restarts, failures, marshalErrs, program, result>>

\* a block on a side branch that is not higher than the best block
AddSideBlock ==
    \E b \in Blocks :
        /\ CanArrive(b)
        /\ b.PreviousBlockHash # Tip
        /\ b.Height <= BestHeight
        /\ known' = known \cup {b.Hash}
        /\ UNCHANGED <<mainChain, pc, wallet, batch, block, db, restarts, failures, marshalErrs, program, result>>

(***************************************************************************)
(* Manager.WalletUpdate.                                                   *)
(***************************************************************************)
\* a call of WalletUpdate: storeBatch := NewBatch()
Invoke ==
    /\ pc = "idle"
    /\ pc' = "loop"
    /\ batch' = NewBatch
    /\ block' = NoBlock
    /\ UNCHANGED <<known, mainChain, wallet, db, restarts, failures, marshalErrs, program, result>>

\* a checkpoint that takes the parent hash but keeps the height of the reversed block
ParentCheckpointKeepsHeight(b) == [Height |-> b.Height, Hash |-> b.PreviousBlockHash]

\* m.wallet.Height = block.Height - 1; m.wallet.Hash = block.PreviousBlockHash
ParentCheckpoint(b) == [Height |-> b.Height - 1, Hash |-> b.PreviousBlockHash]

\* a rollback that gives up the whole chain and returns to the zero checkpoint
RollbackToZero ==
    /\ pc = "loop"
    /\ ~InMainChain(wallet.Height, wallet.Hash)
    /\ wallet.Hash \in known
    /\ LET b == BlockOf(wallet.Hash) IN
        /\ block' = b.Hash
        /\ batch' = ReverseAccountUTXOs(batch, b)
        /\ wallet' = ZeroWalletInfo
    /\ UNCHANGED <<known, mainChain, pc, db, restarts, failures, marshalErrs, program, result>>

\* loop body: the block of the checkpoint is reversed into the batch
Rollback ==
    /\ pc = "loop"
    /\ ~InMainChain(wallet.Height, wallet.Hash)
    /\ wallet.Hash \in known
    /\ LET b == BlockOf(wallet.Hash) IN
        /\ block' = b.Hash
        /\ batch' = ReverseAccountUTXOs(batch, b)
        /\ wallet' = ParentCheckpoint(b)
    /\ UNCHANGED <<known, mainChain, pc, db, restarts, failures, marshalErrs, program, result>>

\* loop body: GetBlockByHash fails and WalletUpdate returns
RollbackFetchFails ==
    /\ pc = "loop"
    /\ ~InMainChain(wallet.Height, wallet.Hash)
    /\ wallet.Hash \notin known \/ failures < MaxFetchFailures
    /\ failures' = IF failures < MaxFetchFailures THEN failures + 1 ELSE failures
    /\ pc' = "idle"
    /\ UNCHANGED <<known, mainChain, wallet, batch, block, db, restarts, marshalErrs, program, result>>

\* loop exit: the checkpoint is on the main chain; commitWalletInfo
Reconciled ==
    /\ pc = "loop"
    /\ InMainChain(wallet.Height, wallet.Hash)
    /\ LET c == commitWalletInfo(wallet, batch, db) IN
        /\ batch' = c.batch
        /\ db' = c.db
    /\ pc' = "fetch"
    /\ UNCHANGED <<known, mainChain, wallet, block, restarts, failures, marshalErrs, program, result>>

\* block, _ = GetBlockByHeight(Height + 1)
FetchNext ==
    /\ pc = "fetch"
    /\ IF GetBlockByHeightExists(wallet.Height + 1)
          THEN block' = mainChain[wallet.Height + 1] /\ pc' = "link"
          ELSE block' = NoBlock /\ pc' = "wait"
    /\ UNCHANGED <<known, mainChain, wallet, batch, db, restarts, failures, marshalErrs, program, result>>

\* GetBlockByHeight fails although the block exists: the error is dropped
FetchNextFails ==
    /\ pc = "fetch"
    /\ GetBlockByHeightExists(wallet.Height + 1)
    /\ failures < MaxFetchFailures
    /\ failures' = failures + 1
    /\ block' = NoBlock
    /\ pc' = "wait"
    /\ UNCHANGED <<known, mainChain, wallet, batch, db, restarts, marshalErrs, program, result>>

\* the waiter fires once the chain has reached Height + 1; the block is fetched
WaitFetch ==
    /\ pc = "wait"
    /\ GetBlockByHeightExists(wallet.Height + 1)
    /\ block' = mainChain[wallet.Height + 1]
    /\ pc' = "link"
    /\ UNCHANGED <<known, mainChain, wallet, batch, db, restarts, failures, marshalErrs, program, result>>

\* the fetch after the wait fails and WalletUpdate returns
WaitFetchFails ==
    /\ pc = "wait"
    /\ GetBlockByHeightExists(wallet.Height + 1)
    /\ failures < MaxFetchFailures
    /\ failures' = failures + 1
    /\ pc' = "idle"
    /\ UNCHANGED <<known, mainChain, wallet, batch, block, db, restarts, marshalErrs, program, result>>

\* a test that accepts whatever block was fetched at Height + 1
LinkageByHeightOnly(b, w) == b.Height = w.Height + 1

\* block.PreviousBlockHash == m.wallet.Hash
LinkageOK(b, w) == b.PreviousBlockHash = w.Hash

\* the fetched block extends the checkpoint: it is applied and committed
Apply ==
    /\ pc = "link"
    /\ LinkageOK(BlockOf(block), wallet)
    /\ \E b \in {BlockOf(block)} :
       \E built \in {BuildAccountUTXOs(batch, b)} :
       \E c \in {commitWalletInfo([Height |-> b.Height, Hash |-> b.Hash], built, db)} :
           /\ wallet' = [Height |-> b.Height, Hash |-> b.Hash]
           /\ batch' = c.batch
           /\ db' = c.db
    /\ pc' = "loop"
    /\ UNCHANGED <<known, mainChain, block, restarts, failures, marshalErrs, program, result>>

\* a rejection that has already taken the height and hash of the fetched block
RejectAdvancesCheckpoint ==
    /\ pc = "link"
    /\ ~LinkageOK(BlockOf(block), wallet)
    /\ wallet' = [Height |-> BlockOf(block).Height, Hash |-> BlockOf(block).Hash]
    /\ pc' = "loop"
    /\ UNCHANGED <<known, mainChain, batch, block, db, restarts, failures, marshalErrs, program, result>>

\* the fetched block does not extend the checkpoint: goto LOOP
Reject ==
    /\ pc = "link"
    /\ ~LinkageOK(BlockOf(block), wallet)
    /\ pc' = "loop"
    /\ UNCHANGED <<known, mainChain, wallet, batch, block, db, restarts, failures, marshalErrs, program, result>>

\* the process stops and a wallet is constructed over the same database
Restart ==
    /\ restarts < MaxRestarts
    /\ restarts' = restarts + 1
    /\ wallet' = NewWallet(db)
    /\ pc' = "idle"
    /\ batch' = NewBatch
    /\ block' = NoBlock
    /\ UNCHANGED <<known, mainChain, db, failures, marshalErrs, program, result>>

Init ==
    /\ known = {}
    /\ mainChain = << >>
    /\ pc = "idle"
    /\ db = EmptyDB
    /\ wallet = NewWallet(EmptyDB)
    /\ batch = NewBatch
    /\ block = NoBlock
    /\ restarts = 0
    /\ failures = 0
    /\ marshalErrs = 0
    /\ program = NoProgram
    /\ result = NoResult

ChainStep == ExtendMainChain \/ Reorganize \/ AddSideBlock

WalletStep ==
    \/ Invoke \/ Rollback \/ RollbackFetchFails \/ Reconciled
    \/ FetchNext \/ FetchNextFails \/ WaitFetch \/ WaitFetchFails
    \/ Apply \/ Reject

Next == ChainStep \/ WalletStep

\* one wallet object: WalletUpdate, re-invoked after it returns
Spec == Init /\ [][Next]_vars

NextRestart == Next \/ Restart

\* the same, with restarts of the process over the same database
SpecRestart == Init /\ [][NextRestart]_vars

(***************************************************************************)
(* The persisted state.                                                    *)
(***************************************************************************)
\* the checkpoint stored under walletkey; the zero checkpoint when none is stored
Persisted == IF walletkey \in DOMAIN db THEN db[walletkey] ELSE ZeroWalletInfo

TypeOK ==
    /\ known \subseteq Hashes
    /\ pc \in {"idle", "loop", "fetch", "wait", "link"}
    /\ wallet.Height \in 0..MaxHeight
    /\ BestHeight <= MaxHeight
    /\ block \in Hashes \cup {NoBlock}

(***************************************************************************)
(* What the chain says the UTXO set of a checkpoint is: the outputs        *)
(* created by the blocks from genesis to the checkpoint's block, less the  *)
(* outputs those blocks spend, for programs of existing accounts.          *)
(***************************************************************************)
SeqToSet(q) == {q[i] : i \in 1..Len(q)}

BlocksUpTo(cp) ==
    IF cp.Height = 0 THEN {}
    ELSE {BlockOf(h) : h \in SeqToSet(ChainTo(BlockOf(cp.Hash)))}

TxsOf(b) == SeqToSet(b.Transactions)

\* the spendable outputs a block creates, as transaction outputs
CreatedBy(b) ==
    UNION {{o \in SeqToSet(tx.Outputs) : o.Entry.kind = "output"} : tx \in TxsOf(b)}

\* the ids of the outputs a block spends
SpentBy(b) ==
    UNION {{i.SpentOutputId : i \in {x \in SeqToSet(tx.Inputs) : x.kind = "spend"}} : tx \in TxsOf(b)}

Ours(o) ==
    /\ o.ControlProgram \in DOMAIN ControlProgramDB
    /\ ControlProgramDB[o.ControlProgram].AccountID \in AccountDB

\* the record the chain data prescribes for a created output
RecordOf(o) ==
    [OutputID     |-> o.ResultId,
     AssetID      |-> o.AssetAmount.AssetId,
     Amount       |-> o.AssetAmount.Amount,
     AccountID    |-> ControlProgramDB[o.ControlProgram].AccountID,
     ProgramIndex |-> ControlProgramDB[o.ControlProgram].KeyIndex,
     Program      |-> o.ControlProgram,
     SourceID     |-> o.Entry.Source.Ref,
     SourcePos    |-> o.Entry.Source.Position,
     RefData      |-> o.Entry.Data,
     Change       |-> ControlProgramDB[o.ControlProgram].Change]

ExpectedOutputs(cp) ==
    LET bs == BlocksUpTo(cp)
        spent == UNION {SpentBy(b) : b \in bs}
    IN  {o \in UNION {CreatedBy(b) : b \in bs} : Ours(o) /\ o.ResultId \notin spent}

\* the UTXO part of a database, by output id
UTXOPart(d) == [id \in {k[2] : k \in {x \in DOMAIN d : x # walletkey}} |-> d[accountUTXOKey(id)]]

ExpectedUTXOPart(cp) ==
    LET outs == ExpectedOutputs(cp)
    IN  [id \in {o.ResultId : o \in outs} |-> RecordOf(CHOOSE o \in outs : o.ResultId = id)]

(***************************************************************************)
(* C1.  In every state the persisted UTXO set is exactly the set of        *)
(* outputs created by the blocks of the chain that ends at the persisted   *)
(* checkpoint, less the outputs those blocks spend, restricted to programs *)
(* registered to an existing account.                                      *)
(***************************************************************************)
UTXOSetMatchesCheckpoint == UTXOPart(db) = ExpectedUTXOPart(Persisted)

(***************************************************************************)
(* C2.  Checkpoint and UTXO writes of a block become visible together:     *)
(* every step that moves the persisted checkpoint forward to a block makes *)
(* exactly that block's deletes and creates visible, every step that moves *)
(* it back makes exactly the reversal of the blocks it moves back past     *)
(* visible, and no step changes the UTXO records while the persisted       *)
(* checkpoint keeps its value.                                             *)
(***************************************************************************)
ForwardEffect(b, d) == UTXOPart(BatchWrite(BuildAccountUTXOs(NewBatch, b), d))

RECURSIVE BackwardEffect(_, _, _)
BackwardEffect(from, to, d) ==
    IF from.Height <= to.Height THEN UTXOPart(d)
    ELSE LET b == BlockOf(from.Hash)
         IN  BackwardEffect([Height |-> b.Height - 1, Hash |-> b.PreviousBlockHash], to,
                            BatchWrite(ReverseAccountUTXOs(NewBatch, b), d))

IsAncestor(anc, cp) ==
    \/ anc = ZeroWalletInfo
    \/ /\ cp.Height >= anc.Height
       /\ anc.Height >= 1
       /\ ChainTo(BlockOf(cp.Hash))[anc.Height] = anc.Hash

CommitMovesBoth(old, new, d, dNew) ==
    IF new = old THEN UTXOPart(dNew) = UTXOPart(d)
    ELSE IF new.Height > old.Height
         THEN /\ new.Height = old.Height + 1
              /\ BlockOf(new.Hash).PreviousBlockHash = old.Hash
              /\ UTXOPart(dNew) = ForwardEffect(BlockOf(new.Hash), d)
         ELSE /\ new.Height < old.Height
              /\ IsAncestor(new, old)
              /\ UTXOPart(dNew) = BackwardEffect(old, new, d)

CheckpointAndUTXOsCommitTogether ==
    [][CommitMovesBoth(Persisted, Persisted', db, db')]_vars

(***************************************************************************)
(* C3.  Parent-linkage gate: whenever the checkpoint height increases, the *)
(* new checkpoint is the height and hash of the fetched block, and that    *)
(* block's PreviousBlockHash is the checkpoint hash held before the step.  *)
(* Checked of the wallet's checkpoint and of the persisted one.            *)
(***************************************************************************)
AdvancesByLinkedBlock(old, new) ==
    new.Height > old.Height =>
        /\ block \in known
        /\ new = [Height |-> BlockOf(block).Height, Hash |-> BlockOf(block).Hash]
        /\ BlockOf(block).PreviousBlockHash = old.Hash

ParentLinkageGate ==
    [][AdvancesByLinkedBlock(wallet, wallet') /\ AdvancesByLinkedBlock(Persisted, Persisted')]_vars

\* on fork B after a rollback of fork A: B3 was fetched, linked to B2 and applied
WitnessParentLinkageGate ==
    /\ pc = "loop"
    /\ block = "B3"
    /\ wallet = [Height |-> 3, Hash |-> "B3"]
    /\ Persisted = wallet
    /\ "A2" \in known

(***************************************************************************)
(* C4.  Round trip: whenever a fetched block B links to the checkpoint C,  *)
(* applying B and committing, then reversing B, setting the checkpoint to  *)
(* (B.Height - 1, B.PreviousBlockHash) and committing, leaves the UTXO     *)
(* records exactly as they were before B and the checkpoint equal to C.    *)
(***************************************************************************)
ApplyThenReverse(b, bt, d) ==
    LET fw == commitWalletInfo([Height |-> b.Height, Hash |-> b.Hash],
                               BuildAccountUTXOs(bt, b), d)
    IN  commitWalletInfo([Height |-> b.Height - 1, Hash |-> b.PreviousBlockHash],
                         ReverseAccountUTXOs(fw.batch, b), fw.db)

RoundTripRestoresState ==
    (pc = "link" /\ LinkageOK(BlockOf(block), wallet)) =>
        LET after == ApplyThenReverse(BlockOf(block), batch, db).db
        IN  /\ UTXOPart(after) = UTXOPart(db)
            /\ after[walletkey] = Persisted
            /\ after[walletkey] = wallet

(***************************************************************************)
(* C5.  Reorg convergence: a rollback step reverses the block of the       *)
(* checkpoint and moves the checkpoint to its parent (so the blocks of the *)
(* abandoned fork are reversed in descending height order); a block is     *)
(* applied only when the checkpoint it extends has been committed; and no  *)
(* persisted state holds outputs created by blocks of two different forks. *)
(***************************************************************************)
CreatorsOf(id) == {b \in AllBlocks : id \in {o.ResultId : o \in CreatedBy(b)}}

OnOneChain(b1, b2) ==
    \/ b1.Hash \in SeqToSet(ChainTo(b2))
    \/ b2.Hash \in SeqToSet(ChainTo(b1))

NoForkMix(d) ==
    \A id1, id2 \in DOMAIN UTXOPart(d) :
        \A b1 \in CreatorsOf(id1), b2 \in CreatorsOf(id2) : OnOneChain(b1, b2)

RollbackStepReversesCheckpointBlock ==
    wallet'.Height < wallet.Height =>
        /\ wallet' = [Height |-> wallet.Height - 1,
                      Hash |-> BlockOf(wallet.Hash).PreviousBlockHash]
        /\ batch' = ReverseAccountUTXOs(batch, BlockOf(wallet.Hash))

ApplyOnlyOnCommittedCheckpoint ==
    wallet'.Height > wallet.Height => Persisted = wallet

ReorgConvergence ==
    [][/\ RollbackStepReversesCheckpointBlock
       /\ ApplyOnlyOnCommittedCheckpoint
       /\ NoForkMix(db')]_vars

(***************************************************************************)
(* C6.  An aborted pass leaves no partial state: when WalletUpdate returns *)
(* the database is unchanged by the return and the wallet's checkpoint is  *)
(* the persisted checkpoint.                                               *)
(***************************************************************************)
AbortLeavesNoPartialState ==
    [][(pc # "idle" /\ pc' = "idle") => (db' = db /\ wallet' = Persisted')]_vars

(***************************************************************************)
(* C7.  Checkpoint load round trip: a wallet constructed over a database   *)
(* starts with the checkpoint last committed to it, and with the zero      *)
(* checkpoint only when none is stored.                                    *)
(***************************************************************************)
NewWalletLoadsCommittedCheckpoint ==
    [][restarts' # restarts => wallet' = Persisted]_vars

(***************************************************************************)
(* C8.  Annotation filter: every stored UTXO record belongs to an output   *)
(* whose control program has a control program record and whose account    *)
(* exists, and carries that account; this after forward applications and   *)
(* after rollbacks that put spent outputs back.                            *)
(***************************************************************************)
AllTxOutputs == UNION {CreatedBy(b) : b \in AllBlocks}

TxOutputOf(id) == CHOOSE o \in AllTxOutputs : o.ResultId = id

AnnotationFilter ==
    \A id \in DOMAIN UTXOPart(db) :
        LET r == UTXOPart(db)[id]
            o == TxOutputOf(id)
        IN  /\ o.ControlProgram \in DOMAIN ControlProgramDB
            /\ ControlProgramDB[o.ControlProgram].AccountID \in AccountDB
            /\ r.Program = o.ControlProgram
            /\ r.AccountID = ControlProgramDB[o.ControlProgram].AccountID

\* A2 (creating O5 for a missing account) and A3 (spending O2 and O5) were
\* applied, then both reversed in one pass and committed at A1
WitnessAnnotationFilter ==
    /\ pc = "fetch"
    /\ Persisted = [Height |-> 1, Hash |-> "A1"]
    /\ block = "A2"
    /\ accountUTXOKey("O6") \in DOMAIN batch
    /\ batch[accountUTXOKey("O6")].op = "del"
    /\ {"O1", "O2"} \subseteq DOMAIN UTXOPart(db)
    /\ "O3" \notin DOMAIN UTXOPart(db)
    /\ "O5" \notin DOMAIN UTXOPart(db)

(***************************************************************************)
(* C9.  Forward application: the step that applies a linked block B        *)
(* commits the checkpoint (B.Height, B.Hash), a record with B's asset,     *)
(* amount, program, source and account for every output B creates for a    *)
(* registered program, no record for an output that was stored and that B  *)
(* spends, and no record for B's outputs with an unregistered program.     *)
(***************************************************************************)
ForwardEffectOf(b, d, dNew) ==
    /\ dNew[walletkey] = [Height |-> b.Height, Hash |-> b.Hash]
    /\ \A o \in CreatedBy(b) :
          Ours(o) => /\ o.ResultId \in DOMAIN UTXOPart(dNew)
                     /\ UTXOPart(dNew)[o.ResultId] = RecordOf(o)
    /\ \A id \in SpentBy(b) :
          id \in DOMAIN UTXOPart(d) => id \notin DOMAIN UTXOPart(dNew)
    /\ \A o \in CreatedBy(b) :
          ~HasControlProgram(o.ControlProgram) => o.ResultId \notin DOMAIN UTXOPart(dNew)

ForwardApplicationEffect ==
    [][(pc = "link" /\ pc' = "loop" /\ LinkageOK(BlockOf(block), wallet))
          => ForwardEffectOf(BlockOf(block), db, db')]_vars

(***************************************************************************)
(* The output ids of the block tree and the blocks the chain has stored.   *)
(***************************************************************************)
AllOutputIds == {o.ResultId : o \in AllTxOutputs}

KnownBlocks == {BlockOf(h) : h \in known}

(***************************************************************************)
(* C11.  Intra-block spend: when the applied block holds a transaction     *)
(* that creates an output for a registered program and another transaction *)
(* that spends that output, the output is not in the UTXO set committed    *)
(* with the block.                                                         *)
(***************************************************************************)
CreatedAndSpentBy(b) == {o \in CreatedBy(b) : Ours(o) /\ o.ResultId \in SpentBy(b)}

IntraBlockSpendNotStored ==
    [][(pc = "link" /\ pc' = "loop" /\ LinkageOK(BlockOf(block), wallet))
          => \A o \in CreatedAndSpentBy(BlockOf(block)) :
                o.ResultId \notin DOMAIN UTXOPart(db')]_vars

(***************************************************************************)
(* C14.  Rollback termination: every iteration of the rollback loop moves  *)
(* the checkpoint from (h, hash) to (h - 1, parent of the block with that  *)
(* hash); h is at least 1 when an iteration runs, the checkpoint stays an  *)
(* ancestor of the persisted checkpoint, and it never goes below the       *)
(* highest block that the checkpoint's chain shares with the main chain.   *)
(***************************************************************************)
\* the height of the highest block of the chain of cp that is on the main chain
CommonAncestorHeight(cp) ==
    IF cp.Height = 0 THEN 0
    ELSE LET c == ChainTo(BlockOf(cp.Hash))
             shared == {k \in 1..cp.Height : k <= BestHeight /\ mainChain[k] = c[k]}
         IN  IF shared = {} THEN 0 ELSE CHOOSE k \in shared : \A j \in shared : j <= k

RollbackIteration == pc = "loop" /\ pc' = "loop" /\ wallet' # wallet

RollbackTermination ==
    [][RollbackIteration =>
          /\ wallet.Height >= 1
          /\ wallet'.Height = wallet.Height - 1
          /\ wallet'.Hash = BlockOf(wallet.Hash).PreviousBlockHash
          /\ wallet'.Height >= CommonAncestorHeight(wallet)
          /\ IsAncestor(wallet', Persisted)]_vars

\* B3 and B2 were reversed, in that order, down to A1, which is on the main chain
WitnessRollbackTermination ==
    /\ pc = "loop"
    /\ wallet = [Height |-> 1, Hash |-> "A1"]
    /\ Persisted = [Height |-> 3, Hash |-> "B3"]
    /\ block = "B2"
    /\ BestHeight >= 2
    /\ mainChain[2] = "A2"

(***************************************************************************)
(* C15.  A rejected block leaves the state unchanged: when the block       *)
(* fetched at Height + 1 has a PreviousBlockHash that is not the           *)
(* checkpoint hash, the step of WalletUpdate stages nothing, leaves the    *)
(* wallet's checkpoint and the database as they are and goes back to the   *)
(* head of the loop.                                                       *)
(***************************************************************************)
RejectedBlockLeavesStateUnchanged ==
    [][(/\ pc = "link"
        /\ BlockOf(block).PreviousBlockHash # wallet.Hash
        /\ pc' # pc
        /\ restarts' = restarts)
          => (pc' = "loop" /\ wallet' = wallet /\ batch' = batch /\ db' = db)]_vars

\* the block fetched at Height + 1 does not link to the checkpoint and was rejected
WitnessRejectedBlock ==
    /\ pc = "loop"
    /\ block # NoBlock
    /\ BlockOf(block).Height = wallet.Height + 1
    /\ BlockOf(block).PreviousBlockHash # wallet.Hash
    /\ Persisted = wallet

(***************************************************************************)
(* C16.  The checkpoint identifies a real block: the wallet's checkpoint   *)
(* and the persisted checkpoint are each the zero checkpoint or the height *)
(* and hash of a block the chain has stored, and their height is at most   *)
(* the height of the highest stored block.                                 *)
(***************************************************************************)
IdentifiesBlock(cp) ==
    \/ cp = ZeroWalletInfo
    \/ /\ cp.Hash \in known
       /\ BlockOf(cp.Hash).Height = cp.Height
       /\ \E h \in known : cp.Height <= BlockOf(h).Height

CheckpointIdentifiesBlock == IdentifiesBlock(wallet) /\ IdentifiesBlock(Persisted)

\* A3 was reversed: the wallet's checkpoint is its parent A2 at height 2
WitnessCheckpointIdentifiesBlock ==
    /\ pc = "loop"
    /\ block = "A3"
    /\ wallet = [Height |-> 2, Hash |-> "A2"]
    /\ Persisted = [Height |-> 3, Hash |-> "A3"]

(***************************************************************************)
(* C17.  Retirement outputs never enter the UTXO set: no batch and no      *)
(* database state has a key for a retirement; the keys BuildAccountUTXOs   *)
(* stages for a block are the ids its spend inputs spend and the ids of    *)
(* its spendable outputs for our programs, and the keys                    *)
(* ReverseAccountUTXOs stages are the ids of its spendable outputs and the *)
(* ids its spend inputs spend for our programs; inputs that are not spends *)
(* contribute no key.                                                      *)
(***************************************************************************)
RetirementIds ==
    UNION {UNION {{o.ResultId : o \in {x \in SeqToSet(tx.Outputs) : x.Entry.kind = "retirement"}}
                  : tx \in TxsOf(b)} : b \in AllBlocks}

KeysOf(ids) == {accountUTXOKey(id) : id \in ids}

SpentOurs(b) ==
    UNION {{i.SpentOutputId : i \in {x \in SeqToSet(tx.Inputs) :
                x.kind = "spend" /\ x.Prevout.kind = "output"
                /\ x.Prevout.ControlProgram \in DOMAIN ControlProgramDB
                /\ ControlProgramDB[x.Prevout.ControlProgram].AccountID \in AccountDB}}
           : tx \in TxsOf(b)}

CreatedOurs(b) == {o.ResultId : o \in {x \in CreatedBy(b) : Ours(x)}}

RetirementsNeverStored ==
    /\ \A r \in RetirementIds :
          /\ accountUTXOKey(r) \notin DOMAIN batch
          /\ accountUTXOKey(r) \notin DOMAIN db
    /\ \A b \in KnownBlocks :
          /\ DOMAIN BuildAccountUTXOs(NewBatch, b) = KeysOf(SpentBy(b) \cup CreatedOurs(b))
          /\ DOMAIN ReverseAccountUTXOs(NewBatch, b)
                = KeysOf(SpentOurs(b) \cup {o.ResultId : o \in CreatedBy(b)})

\* B2, which retires R1 under the registered program p1, was applied and reversed
WitnessRetirementsNeverStored ==
    /\ pc = "fetch"
    /\ block = "B2"
    /\ Persisted = [Height |-> 1, Hash |-> "A1"]
    /\ accountUTXOKey("O7") \in DOMAIN batch
    /\ batch[accountUTXOKey("O7")].op = "del"
    /\ "O1" \in DOMAIN UTXOPart(db)

(***************************************************************************)
(* C13.  Steady-state progress.  The chain grows by extension only, no     *)
(* fetch fails and the wallet's loop is scheduled fairly.                  *)
(***************************************************************************)
WalletSteady == Invoke \/ Reconciled \/ FetchNext \/ WaitFetch \/ Apply

NextSteady == ExtendMainChain \/ WalletSteady

\* WalletUpdate runs in its own goroutine and never returns without a failure
SpecSteady == Init /\ [][NextSteady]_vars /\ WF_vars(WalletSteady)

\* the persisted checkpoint moves to the main-chain block one above it
OneBlockInHeightOrder ==
    Persisted' # Persisted =>
        /\ Persisted'.Height = Persisted.Height + 1
        /\ Persisted'.Height <= BestHeight
        /\ Persisted'.Hash = mainChain[Persisted'.Height]
        /\ BlockOf(Persisted'.Hash).PreviousBlockHash = Persisted.Hash

\* the loop starts to wait only when no block is stored at Height + 1
BlocksOnlyAtTip ==
    (pc # "wait" /\ pc' = "wait") => ~GetBlockByHeightExists(wallet.Height + 1)

(* C13: every height the chain reaches above the persisted checkpoint is   *)
(* eventually the height of the persisted checkpoint, with the hash of the *)
(* main-chain block at that height; the persisted checkpoint rises one     *)
(* block at a time along the main chain; the loop starts to wait only when *)
(* there is no block at Height + 1.                                        *)
SteadyStateProgress ==
    /\ \A H \in 1..MaxHeight :
          (BestHeight >= H /\ Persisted.Height < H)
                             ~> (/\ Persisted.Height = H
                                /\ BestHeight >= H
                                /\ Persisted.Hash = mainChain[H])
    /\ [][OneBlockInHeightOrder /\ BlocksOnlyAtTip]_vars

\* the wallet has caught up with a chain of four blocks and waits at its tip
WitnessSteadyStateProgress ==
    /\ pc = "wait"
    /\ BestHeight = 4
    /\ Persisted = [Height |-> 4, Hash |-> mainChain[4]]
    /\ wallet = Persisted

(***************************************************************************)
(* ParseP2SPMultiSigProgram applied to each of the programs.               *)
(***************************************************************************)
InitParse ==
    /\ known = {}
    /\ mainChain = << >>
    /\ pc = "idle"
    /\ db = EmptyDB
    /\ wallet = NewWallet(EmptyDB)
    /\ batch = NewBatch
    /\ block = NoBlock
    /\ restarts = 0
    /\ failures = 0
    /\ marshalErrs = 0
    /\ program \in Programs
    /\ result = NoResult

Parse ==
    /\ ~result.done
    /\ result' = ParseP2SPMultiSigProgram(program)
    /\ UNCHANGED <<known, mainChain, pc, wallet, batch, block, db, restarts, failures, marshalErrs, program>>

SpecParse == InitParse /\ [][Parse]_vars

(***************************************************************************)
(* C18.  ParseP2SPMultiSigProgram reports every malformed program as an    *)
(* error: a call that returns no key list returns an error that is not     *)
(* nil.                                                                    *)
(***************************************************************************)
ParseFailureReportsError ==
    (result.done /\ result.isNil) => result.err # NilError

(***************************************************************************)
(* Failures of json.Marshal.  upsertConfirmedAccountOutputs returns at the *)
(* first record that fails, with the records before it staged; the callers *)
(* log the error and return; commitWalletInfo logs the error and returns   *)
(* without Set and Write.  WalletUpdate goes on after each of them.        *)
(***************************************************************************)
\* upsertConfirmedAccountOutputs when json.Marshal fails at the k-th output
upsertFailingAt(outs, k, storeBatch) ==
    upsertConfirmedAccountOutputs(SubSeq(outs, 1, k - 1), storeBatch)

\* ReverseAccountUTXOs returns at line 274; lines 100-101 still run
RollbackUpsertFails ==
    /\ pc = "loop"
    /\ marshalErrs < MaxMarshalFailures
    /\ ~InMainChain(wallet.Height, wallet.Hash)
    /\ wallet.Hash \in known
    /\ \E b \in {BlockOf(wallet.Hash)} :
       \E accOuts \in {loadAccountInfo(reverseOuts(b.Transactions))} :
       \E k \in 1..Len(accOuts) :
           /\ block' = b.Hash
           /\ batch' = upsertFailingAt(accOuts, k, batch)
           /\ wallet' = ParentCheckpoint(b)
    /\ marshalErrs' = marshalErrs + 1
    /\ UNCHANGED <<known, mainChain, pc, db, restarts, failures, program, result>>

\* commitWalletInfo of line 106 returns at line 143
ReconciledCommitFails ==
    /\ pc = "loop"
    /\ marshalErrs < MaxMarshalFailures
    /\ InMainChain(wallet.Height, wallet.Hash)
    /\ pc' = "fetch"
    /\ marshalErrs' = marshalErrs + 1
    /\ UNCHANGED <<known, mainChain, wallet, batch, block, db, restarts, failures, program, result>>

\* BuildAccountUTXOs returns at line 328; commitWalletInfo of line 126 runs
ApplyUpsertFails ==
    /\ pc = "link"
    /\ marshalErrs < MaxMarshalFailures
    /\ LinkageOK(BlockOf(block), wallet)
    /\ \E b \in {BlockOf(block)} :
       \E accOuts \in {loadAccountInfo(buildOuts(b.Transactions))} :
       \E k \in 1..Len(accOuts) :
       \E built \in {upsertFailingAt(accOuts, k, DeleteAll(prevoutDBKeys(b.Transactions), batch))} :
       \E c \in {commitWalletInfo([Height |-> b.Height, Hash |-> b.Hash], built, db)} :
           /\ wallet' = [Height |-> b.Height, Hash |-> b.Hash]
           /\ batch' = c.batch
           /\ db' = c.db
    /\ pc' = "loop"
    /\ marshalErrs' = marshalErrs + 1
    /\ UNCHANGED <<known, mainChain, block, restarts, failures, program, result>>

\* commitWalletInfo of line 126 returns at line 143
ApplyCommitFails ==
    /\ pc = "link"
    /\ marshalErrs < MaxMarshalFailures
    /\ LinkageOK(BlockOf(block), wallet)
    /\ \E b \in {BlockOf(block)} :
           /\ wallet' = [Height |-> b.Height, Hash |-> b.Hash]
           /\ batch' = BuildAccountUTXOs(batch, b)
    /\ pc' = "loop"
    /\ marshalErrs' = marshalErrs + 1
    /\ UNCHANGED <<known, mainChain, block, db, restarts, failures, program, result>>

MarshalFails ==
    RollbackUpsertFails \/ ReconciledCommitFails \/ ApplyUpsertFails \/ ApplyCommitFails

NextMarshal == Next \/ MarshalFails

SpecMarshal == Init /\ [][NextMarshal]_vars

(***************************************************************************)
(* C12.  Serialization failure: a step in which json.Marshal fails writes  *)
(* nothing to the database, ends the call of WalletUpdate, and leaves the  *)
(* wallet's checkpoint no higher than the persisted checkpoint.            *)
(***************************************************************************)
SerializationFailureAborts ==
    [][marshalErrs' # marshalErrs =>
          /\ db' = db
          /\ pc' = "idle"
          /\ wallet'.Height <= Persisted'.Height]_vars

====
